---- MODULE Spec2Model ----
(***************************************************************************)
(* The Streamlit script src/main.py as a state machine.  The script is     *)
(* re-executed from its first line on every interaction of a browser       *)
(* session; what survives a run is st.session_state (id, file_cache,       *)
(* messages, context), the widget values and the process-wide llama_index  *)
(* Settings object.  Every session runs its script in a thread of its own, *)
(* so runs of different sessions interleave line by line.                  *)
(* An interaction is taken when the session's previous run has ended.      *)
(***************************************************************************)
EXTENDS Naturals, Sequences, FiniteSets, TLC

VARIABLES
    session_state,  \* st.session_state of each session: a dict, keys appear when assigned
    Settings,       \* llama_index.core.Settings: process-wide embed_model and llm
    uuidCalls,      \* number of uuid.uuid4() calls so far (each call returns a fresh value)
    uploaded_file,  \* value of the st.file_uploader widget (NoFile: nothing uploaded)
    rejected,       \* file the uploader widget last refused (NoFile: none)
    prompt,         \* value st.chat_input returns in the current run (<<>>: None)
    trigger,        \* the interaction that started the current run
    pc,             \* line the run has reached ("idle": the run has ended)
    outcome,        \* how the run ended: running, done, stopped (st.stop), raised (uncaught)
    tempExists,     \* the TemporaryDirectory of the run exists on disk
    status,         \* what the sidebar shows: none, indexing, ready, error
    query_engine,   \* the script's variable query_engine: {} unbound, {h} bound to h
    index,          \* the script's variable index: the embedding object it was built with
    attempts,       \* number of times a session has constructed the llm / embed_model pair
    stream,         \* streaming_response.response_gen: the fragments it yields
    pos,            \* number of fragments the generator has yielded
    full_response,  \* the script's variable full_response
    placeholder,    \* what message_placeholder shows
    lastQuery,      \* the call query_engine.query(...) made by the run, {} if none
    stored,         \* per session and file name: executions of line 104
    inits,          \* per session: executions of lines 21-22 and of line 124
    snap            \* st.session_state as it was when the current run started

vars == <<session_state, Settings, uuidCalls, uploaded_file, rejected, prompt, trigger,
          pc, outcome, tempExists, status, query_engine, index, attempts, stream, pos,
          full_response, placeholder, lastQuery, stored, inits, snap>>

----------------------------------------------------------------------------
(* Bounds of the model *)
MaxMsgs == 2        \* a chat input is taken while the history is shorter than this
MaxFrags == 2       \* longest fragment sequence a query yields
MaxAttempts == 2    \* index builds a session starts

Sessions == {"S1", "S2"}
Solo == {"S1"}

XmlNames == {"a", "b"}
File(n, e) == [name |-> n, ext |-> e]
NoFile == File("", "")
Files == {File(n, "xml") : n \in XmlNames} \cup {File("c", "txt")}

Chars == {"x", "y"}
Fragments == {<<c>> : c \in Chars}
Streams == UNION {[1..k -> Fragments] : k \in 0..MaxFrags}
Prompts == {<<"p">>}
Marker == <<"|">>

Obj(s, n) == [owner |-> s, n |-> n]
DefaultObj == Obj("default", 0)

----------------------------------------------------------------------------
(* dict helpers *)
Has(d, k) == k \in DOMAIN d
Put(d, k, v) == [x \in DOMAIN d \cup {k} |-> IF x = k THEN v ELSE d[x]]
EmptyDict == [x \in {} |-> 0]

RECURSIVE Concat(_)
Concat(frags) == IF frags = <<>> THEN <<>> ELSE Head(frags) \o Concat(Tail(frags))

Prefix(q, k) == SubSeq(q, 1, k)

----------------------------------------------------------------------------
(* Pure pieces of the script *)

NeedsInitAlways(ss) == TRUE

\* line 20: if "id" not in st.session_state
NeedsInit(ss) == ~Has(ss, "id")

\* lines 21-22: id = uuid.uuid4(); file_cache = {}
InitSession(ss, u) == Put(Put(ss, "id", u), "file_cache", EmptyDict)

reset_everything(ss) ==
    Put(Put(Put(ss, "messages", <<>>), "context", "None"), "file_cache", EmptyDict)

\* lines 28-31: reset_chat()
reset_chat(ss) == Put(Put(ss, "messages", <<>>), "context", "None")

AcceptsAny(f) == TRUE

\* line 37: st.file_uploader(..., type="xml") takes a file only with that extension
Accepts(f) == f.ext = "xml"

\* line 47: file_key = f"{session_id}-{uploaded_file.name}"
file_key(ss, f) == <<ss["id"], f.name>>

\* line 50: st.session_state.get("file_cache", {})
GetCache(ss) == IF Has(ss, "file_cache") THEN ss["file_cache"] ELSE EmptyDict

CacheMiss(ss, f) == FALSE

\* line 50 / 105: the key is in the cache
CacheHit(ss, f) == Has(GetCache(ss), file_key(ss, f))

KeepTempDir(exists) == exists

\* line 41: leaving the with block removes the temporary directory
ExitTempDir(exists) == FALSE

ContinuePc == "main"

\* line 112 (and 60): st.stop() ends the run
HaltPc == "idle"

SkipLlm(S, obj) == S

\* line 74: Settings.llm = llm
WriteLlm(S, obj) == [S EXCEPT !.llm = obj]

\* line 75: the query engine made from the index and the current Settings.llm
Engine(s, n, idx, llm) == [owner |-> s, n |-> n, embed |-> idx, llm |-> llm]

\* line 104: st.session_state.file_cache[file_key] = query_engine
StoreEngine(ss, f, h) == Put(ss, "file_cache", Put(ss["file_cache"], file_key(ss, f), h))

\* lines 136, 159: st.session_state.messages.append({"role": ..., "content": ...})
AppendMessage(ss, role, content) ==
    Put(ss, "messages", Append(ss["messages"], [role |-> role, content |-> content]))

\* line 147: the argument handed to query_engine.query
QueryArg(p) == p

Prepend(full, chunk) == chunk \o full

\* line 150: full_response += chunk
Accumulate(full, chunk) == full \o chunk

\* line 151: full_response + the cursor glyph
InProgress(full) == full \o Marker

----------------------------------------------------------------------------
Init ==
    /\ session_state = [s \in Sessions |-> EmptyDict]
    /\ Settings = [embed_model |-> DefaultObj, llm |-> DefaultObj]
    /\ uuidCalls = 0
    /\ uploaded_file = [s \in Sessions |-> NoFile]
    /\ rejected = [s \in Sessions |-> NoFile]
    /\ prompt = [s \in Sessions |-> <<>>]
    /\ trigger = [s \in Sessions |-> "load"]
    /\ pc = [s \in Sessions |-> "start"]
    /\ outcome = [s \in Sessions |-> "running"]
    /\ tempExists = [s \in Sessions |-> FALSE]
    /\ status = [s \in Sessions |-> "none"]
    /\ query_engine = [s \in Sessions |-> {}]
    /\ index = [s \in Sessions |-> DefaultObj]
    /\ attempts = [s \in Sessions |-> 0]
    /\ stream = [s \in Sessions |-> <<>>]
    /\ pos = [s \in Sessions |-> 0]
    /\ full_response = [s \in Sessions |-> <<>>]
    /\ placeholder = [s \in Sessions |-> <<>>]
    /\ lastQuery = [s \in Sessions |-> {}]
    /\ stored = [s \in Sessions |-> [n \in XmlNames |-> 0]]
    /\ inits = [s \in Sessions |-> [session |-> 0, history |-> 0]]
    /\ snap = [s \in Sessions |-> EmptyDict]

----------------------------------------------------------------------------
(* Interactions: each starts a new run of the script from line 1 *)

\* the Clear button and the chat input are on the page unless st.stop() ended the
\* last run in the sidebar
MainRendered(s) == outcome[s] \in {"done", "raised"}

Rerun(s, trig, ss, p) ==
    /\ session_state' = [session_state EXCEPT ![s] = ss]
    /\ snap' = [snap EXCEPT ![s] = ss]
    /\ trigger' = [trigger EXCEPT ![s] = trig]
    /\ prompt' = [prompt EXCEPT ![s] = p]
    /\ pc' = [pc EXCEPT ![s] = "start"]
    /\ status' = [status EXCEPT ![s] = "none"]
    /\ query_engine' = [query_engine EXCEPT ![s] = {}]
    /\ index' = [index EXCEPT ![s] = DefaultObj]
    /\ stream' = [stream EXCEPT ![s] = <<>>]
    /\ pos' = [pos EXCEPT ![s] = 0]
    /\ full_response' = [full_response EXCEPT ![s] = <<>>]
    /\ placeholder' = [placeholder EXCEPT ![s] = <<>>]
    /\ lastQuery' = [lastQuery EXCEPT ![s] = {}]
    /\ outcome' = [outcome EXCEPT ![s] = "running"]
    /\ UNCHANGED <<Settings, uuidCalls, tempExists, attempts, stored, inits>>

\* line 37: the user picks a file the uploader takes
UploadOf(s, choice) ==
    /\ pc[s] = "idle"
    /\ \E f \in choice :
        /\ Accepts(f)
        /\ uploaded_file' = [uploaded_file EXCEPT ![s] = f]
        /\ rejected' = [rejected EXCEPT ![s] = NoFile]
        /\ Rerun(s, "upload", session_state[s], <<>>)

Upload(s) == UploadOf(s, Files)

\* line 37: the user picks a file the uploader refuses; no run starts
UploadRefused(s) ==
    /\ pc[s] = "idle"
    /\ \E f \in Files :
        /\ ~Accepts(f)
        /\ rejected[s] # f
        /\ rejected' = [rejected EXCEPT ![s] = f]
        /\ UNCHANGED <<session_state, Settings, uuidCalls, uploaded_file, prompt, trigger,
                       pc, outcome, tempExists, status, query_engine, index, attempts,
                       stream, pos, full_response, placeholder, lastQuery, stored, inits,
                       snap>>

\* line 37: the user removes the uploaded file
RemoveUpload(s) ==
    /\ pc[s] = "idle"
    /\ uploaded_file[s] # NoFile
    /\ uploaded_file' = [uploaded_file EXCEPT ![s] = NoFile]
    /\ UNCHANGED rejected
    /\ Rerun(s, "remove", session_state[s], <<>>)

\* line 134: the user submits a chat input
ChatInput(s) ==
    /\ pc[s] = "idle"
    /\ MainRendered(s)
    /\ Len(session_state[s]["messages"]) < MaxMsgs
    /\ \E p \in Prompts : Rerun(s, "chat", session_state[s], p)
    /\ UNCHANGED <<uploaded_file, rejected>>

\* line 120: the Clear button calls reset_chat, then the script runs again
Clear(s) ==
    /\ pc[s] = "idle"
    /\ MainRendered(s)
    /\ Rerun(s, "clear", reset_chat(session_state[s]), <<>>)
    /\ UNCHANGED <<uploaded_file, rejected>>

----------------------------------------------------------------------------
(* The run of the script, line by line *)

\* lines 20-24: the session is set up on its first run only
Start(s) ==
    /\ pc[s] = "start"
    /\ IF NeedsInit(session_state[s])
       THEN /\ uuidCalls' = uuidCalls + 1
            /\ session_state' = [session_state EXCEPT ![s] = InitSession(@, uuidCalls + 1)]
            /\ inits' = [inits EXCEPT ![s].session = @ + 1]
       ELSE UNCHANGED <<uuidCalls, session_state, inits>>
    /\ pc' = [pc EXCEPT ![s] = "sidebar"]
    /\ UNCHANGED <<Settings, uploaded_file, rejected, prompt, trigger, outcome, tempExists,
                   status, query_engine, index, attempts, stream, pos, full_response,
                   placeholder, lastQuery, stored, snap>>

\* lines 110-112: an exception leaves the with block (the directory is removed),
\* is shown by st.error, and st.stop() ends the run
Except(s) ==
    /\ tempExists' = [tempExists EXCEPT ![s] = ExitTempDir(@)]
    /\ status' = [status EXCEPT ![s] = "error"]
    /\ outcome' = [outcome EXCEPT ![s] = "stopped"]
    /\ pc' = [pc EXCEPT ![s] = HaltPc]

\* lines 39-48: no file: on to the main column; a file: its bytes are written
\* into a fresh temporary directory, which may fail
Sidebar(s) ==
    /\ pc[s] = "sidebar"
    /\ \/ /\ uploaded_file[s] = NoFile
          /\ pc' = [pc EXCEPT ![s] = "main"]
          /\ UNCHANGED <<tempExists, status, outcome>>
       \/ /\ uploaded_file[s] # NoFile
          /\ tempExists' = [tempExists EXCEPT ![s] = TRUE]
          /\ status' = [status EXCEPT ![s] = "indexing"]
          /\ pc' = [pc EXCEPT ![s] = "cache"]
          /\ UNCHANGED outcome
       \/ /\ uploaded_file[s] # NoFile
          /\ Except(s)
    /\ UNCHANGED <<session_state, Settings, uuidCalls, uploaded_file, rejected, prompt,
                   trigger, query_engine, index, attempts, stream, pos, full_response,
                   placeholder, lastQuery, stored, inits, snap>>

\* lines 50, 105-109: a cached key binds query_engine to the stored engine and
\* leaves the with block; a new key goes on to build
CacheLookup(s) ==
    /\ pc[s] = "cache"
    /\ \/ /\ CacheHit(session_state[s], uploaded_file[s])
          /\ query_engine' = [query_engine EXCEPT ![s] =
                 {GetCache(session_state[s])[file_key(session_state[s], uploaded_file[s])]}]
          /\ status' = [status EXCEPT ![s] = "ready"]
          /\ tempExists' = [tempExists EXCEPT ![s] = ExitTempDir(@)]
          /\ pc' = [pc EXCEPT ![s] = "main"]
       \/ /\ ~CacheHit(session_state[s], uploaded_file[s])
          /\ pc' = [pc EXCEPT ![s] = "exists"]
          /\ UNCHANGED <<query_engine, status, tempExists>>
    /\ UNCHANGED <<session_state, Settings, uuidCalls, uploaded_file, rejected, prompt,
                   trigger, outcome, index, attempts, stream, pos, full_response,
                   placeholder, lastQuery, stored, inits, snap>>

\* something outside the program removes the directory before line 52 looks at it
TmpReaper(s) ==
    /\ pc[s] = "exists"
    /\ tempExists[s]
    /\ tempExists' = [tempExists EXCEPT ![s] = FALSE]
    /\ UNCHANGED <<session_state, Settings, uuidCalls, uploaded_file, rejected, prompt,
                   trigger, pc, outcome, status, query_engine, index, attempts, stream,
                   pos, full_response, placeholder, lastQuery, stored, inits, snap>>

\* lines 52-60: os.path.exists(temp_dir); if not, st.error and st.stop()
ExistsCheck(s) ==
    /\ pc[s] = "exists"
    /\ \/ /\ tempExists[s]
          /\ pc' = [pc EXCEPT ![s] = "load"]
          /\ UNCHANGED <<tempExists, status, outcome>>
       \/ /\ ~tempExists[s]
          /\ tempExists' = [tempExists EXCEPT ![s] = ExitTempDir(@)]
          /\ status' = [status EXCEPT ![s] = "error"]
          /\ outcome' = [outcome EXCEPT ![s] = "stopped"]
          /\ pc' = [pc EXCEPT ![s] = HaltPc]
    /\ UNCHANGED <<session_state, Settings, uuidCalls, uploaded_file, rejected, prompt,
                   trigger, query_engine, index, attempts, stream, pos, full_response,
                   placeholder, lastQuery, stored, inits, snap>>

\* line 62: docs = loader.load_data(), which may raise
LoadDocs(s) ==
    /\ pc[s] = "load"
    /\ \/ /\ pc' = [pc EXCEPT ![s] = "setup"]
          /\ UNCHANGED <<tempExists, status, outcome>>
       \/ Except(s)
    /\ UNCHANGED <<session_state, Settings, uuidCalls, uploaded_file, rejected, prompt,
                   trigger, query_engine, index, attempts, stream, pos, full_response,
                   placeholder, lastQuery, stored, inits, snap>>

\* lines 65-70: llm and embed_model are constructed (which may raise) and
\* Settings.embed_model is set to this run's embed_model
SetupModels(s) ==
    /\ pc[s] = "setup"
    /\ \/ /\ attempts[s] < MaxAttempts
          /\ attempts' = [attempts EXCEPT ![s] = @ + 1]
          /\ Settings' = [Settings EXCEPT !.embed_model = Obj(s, attempts[s] + 1)]
          /\ pc' = [pc EXCEPT ![s] = "index"]
          /\ UNCHANGED <<tempExists, status, outcome>>
       \/ /\ Except(s)
          /\ UNCHANGED <<attempts, Settings>>
    /\ UNCHANGED <<session_state, uuidCalls, uploaded_file, rejected, prompt, trigger,
                   query_engine, index, stream, pos, full_response, placeholder,
                   lastQuery, stored, inits, snap>>

\* line 71: the index is built with whatever Settings.embed_model is now; may raise
BuildIndex(s) ==
    /\ pc[s] = "index"
    /\ \/ /\ index' = [index EXCEPT ![s] = Settings.embed_model]
          /\ pc' = [pc EXCEPT ![s] = "setllm"]
          /\ UNCHANGED <<tempExists, status, outcome>>
       \/ /\ Except(s)
          /\ UNCHANGED index
    /\ UNCHANGED <<session_state, Settings, uuidCalls, uploaded_file, rejected, prompt,
                   trigger, query_engine, attempts, stream, pos, full_response,
                   placeholder, lastQuery, stored, inits, snap>>

\* line 74: Settings.llm = llm
SetLlm(s) ==
    /\ pc[s] = "setllm"
    /\ Settings' = WriteLlm(Settings, Obj(s, attempts[s]))
    /\ pc' = [pc EXCEPT ![s] = "engine"]
    /\ UNCHANGED <<session_state, uuidCalls, uploaded_file, rejected, prompt, trigger,
                   outcome, tempExists, status, query_engine, index, attempts, stream,
                   pos, full_response, placeholder, lastQuery, stored, inits, snap>>

\* lines 75-109: the query engine is made with whatever Settings.llm is now (may
\* raise), gets the prompt template, is stored under the key, and the with block ends
MakeEngine(s) ==
    /\ pc[s] = "engine"
    /\ \/ LET h == Engine(s, attempts[s], index[s], Settings.llm) IN
          /\ query_engine' = [query_engine EXCEPT ![s] = {h}]
          /\ session_state' = [session_state EXCEPT ![s] =
                                   StoreEngine(@, uploaded_file[s], h)]
          /\ stored' = [stored EXCEPT ![s][uploaded_file[s].name] = @ + 1]
          /\ status' = [status EXCEPT ![s] = "ready"]
          /\ tempExists' = [tempExists EXCEPT ![s] = ExitTempDir(@)]
          /\ pc' = [pc EXCEPT ![s] = "main"]
          /\ UNCHANGED outcome
       \/ /\ Except(s)
          /\ UNCHANGED <<query_engine, session_state, stored>>
    /\ UNCHANGED <<Settings, uuidCalls, uploaded_file, rejected, prompt, trigger, index,
                   attempts, stream, pos, full_response, placeholder, lastQuery, inits,
                   snap>>

\* lines 114-139: the main column: the history is created on the first run that
\* gets here, shown, and a chat input is appended to it as a user message
Main(s) ==
    /\ pc[s] = "main"
    /\ LET ss1 == IF ~Has(session_state[s], "messages")
                  THEN reset_chat(session_state[s]) ELSE session_state[s]
       IN  /\ inits' = [inits EXCEPT ![s].history =
                           IF ~Has(session_state[s], "messages") THEN @ + 1 ELSE @]
           /\ IF prompt[s] # <<>>
              THEN /\ session_state' = [session_state EXCEPT ![s] =
                                            AppendMessage(ss1, "user", prompt[s])]
                   /\ pc' = [pc EXCEPT ![s] = "query"]
                   /\ UNCHANGED outcome
              ELSE /\ session_state' = [session_state EXCEPT ![s] = ss1]
                   /\ pc' = [pc EXCEPT ![s] = "idle"]
                   /\ outcome' = [outcome EXCEPT ![s] = "done"]
    /\ UNCHANGED <<Settings, uuidCalls, uploaded_file, rejected, prompt, trigger,
                   tempExists, status, query_engine, index, attempts, stream, pos,
                   full_response, placeholder, lastQuery, stored, snap>>

\* lines 142-147: query_engine.query(prompt).  The name query_engine is bound only
\* by the upload block: without an uploaded file the line raises NameError.  The
\* call itself may raise as well.  Nothing catches either.
Query(s) ==
    /\ pc[s] = "query"
    /\ \/ /\ query_engine[s] = {}
          /\ pc' = [pc EXCEPT ![s] = "idle"]
          /\ outcome' = [outcome EXCEPT ![s] = "raised"]
          /\ UNCHANGED <<stream, lastQuery>>
       \/ /\ query_engine[s] # {}
          /\ \E h \in query_engine[s], q \in Streams :
                /\ lastQuery' = [lastQuery EXCEPT ![s] =
                                     {[engine |-> h, text |-> QueryArg(prompt[s])]}]
                /\ stream' = [stream EXCEPT ![s] = q]
          /\ pc' = [pc EXCEPT ![s] = "stream"]
          /\ UNCHANGED outcome
       \/ /\ query_engine[s] # {}
          /\ \E h \in query_engine[s] :
                lastQuery' = [lastQuery EXCEPT ![s] =
                                  {[engine |-> h, text |-> QueryArg(prompt[s])]}]
          /\ pc' = [pc EXCEPT ![s] = "idle"]
          /\ outcome' = [outcome EXCEPT ![s] = "raised"]
          /\ UNCHANGED stream
    /\ UNCHANGED <<session_state, Settings, uuidCalls, uploaded_file, rejected, prompt,
                   trigger, tempExists, status, query_engine, index, attempts, pos,
                   full_response, placeholder, stored, inits, snap>>

\* lines 149-151: the next fragment is added to full_response and shown with the cursor
StreamChunk(s) ==
    /\ pc[s] = "stream"
    /\ pos[s] < Len(stream[s])
    /\ pos' = [pos EXCEPT ![s] = @ + 1]
    /\ full_response' = [full_response EXCEPT ![s] = Accumulate(@, stream[s][pos[s] + 1])]
    /\ placeholder' = [placeholder EXCEPT ![s] =
                           InProgress(Accumulate(full_response[s], stream[s][pos[s] + 1]))]
    /\ UNCHANGED <<session_state, Settings, uuidCalls, uploaded_file, rejected, prompt,
                   trigger, pc, outcome, tempExists, status, query_engine, index, attempts,
                   stream, lastQuery, stored, inits, snap>>

\* line 149: the generator raises instead of yielding its next fragment
StreamFail(s) ==
    /\ pc[s] = "stream"
    /\ pos[s] < Len(stream[s])
    /\ pc' = [pc EXCEPT ![s] = "idle"]
    /\ outcome' = [outcome EXCEPT ![s] = "raised"]
    /\ UNCHANGED <<session_state, Settings, uuidCalls, uploaded_file, rejected, prompt,
                   trigger, tempExists, status, query_engine, index, attempts, stream,
                   pos, full_response, placeholder, lastQuery, stored, inits, snap>>

\* lines 155-159: the generator is exhausted: the text is shown without the cursor
\* and appended to the history as the assistant message
Finish(s) ==
    /\ pc[s] = "stream"
    /\ pos[s] = Len(stream[s])
    /\ placeholder' = [placeholder EXCEPT ![s] = full_response[s]]
    /\ session_state' = [session_state EXCEPT ![s] =
                             AppendMessage(@, "assistant", full_response[s])]
    /\ pc' = [pc EXCEPT ![s] = "idle"]
    /\ outcome' = [outcome EXCEPT ![s] = "done"]
    /\ UNCHANGED <<Settings, uuidCalls, uploaded_file, rejected, prompt, trigger,
                   tempExists, status, query_engine, index, attempts, stream, pos,
                   full_response, lastQuery, stored, inits, snap>>

----------------------------------------------------------------------------
Interact(s) == Upload(s) \/ UploadRefused(s) \/ RemoveUpload(s) \/ ChatInput(s) \/ Clear(s)

UploadBlock(s) ==
    \/ Start(s) \/ Sidebar(s) \/ CacheLookup(s) \/ TmpReaper(s) \/ ExistsCheck(s)
    \/ LoadDocs(s) \/ SetupModels(s) \/ BuildIndex(s) \/ SetLlm(s) \/ MakeEngine(s)

Chat(s) == Main(s) \/ Query(s) \/ StreamChunk(s) \/ StreamFail(s) \/ Finish(s)

\* one browser session
Next == \E s \in Solo : Interact(s) \/ UploadBlock(s) \/ Chat(s)

Spec == Init /\ [][Next]_vars

\* two browser sessions uploading files, each run in a thread of its own
RaceFiles == {File("a", "xml")}

UploadRace(s) == UploadOf(s, RaceFiles)

NextRace == \E s \in Sessions : UploadRace(s) \/ UploadBlock(s) \/ Main(s)

SpecRace == Init /\ [][NextRace]_vars

----------------------------------------------------------------------------
(* Properties *)

Cache(s) == GetCache(session_state[s])
Messages(ss) == IF Has(ss, "messages") THEN ss["messages"] ELSE <<>>
BuildPcs == {"exists", "load", "setup", "index", "setllm", "engine"}
BlockPcs == {"cache"} \cup BuildPcs
Key(s) == file_key(session_state[s], uploaded_file[s])

\* state part of C1
C1_StoredOnce ==
    \A s \in Sessions :
        /\ \A n \in XmlNames : stored[s][n] <= 1
        /\ pc[s] \in BuildPcs => ~CacheHit(session_state[s], uploaded_file[s])
        /\ (pc[s] \in {"main", "query", "stream"} /\ uploaded_file[s] # NoFile)
               => /\ CacheHit(session_state[s], uploaded_file[s])
                  /\ query_engine[s] = {Cache(s)[Key(s)]}

\* step part of C1
C1_EntriesKept ==
    \A s \in Sessions : \A k \in DOMAIN Cache(s) :
        /\ k \in DOMAIN GetCache(session_state'[s])
        /\ GetCache(session_state'[s])[k] = Cache(s)[k]

\* C1: an engine stored under a key is never removed or replaced, line 104 runs at
\* most once per (session, file name), the build path is entered only for a key
\* that is not cached, and a run past the upload block with a cached file holds
\* exactly the stored engine.
C1_BuildOncePerFile == [](C1_StoredOnce) /\ [][C1_EntriesKept]_vars

\* C1 witness: a chat run after the build holds the engine stored earlier
C1_Witness ==
    \E s \in Solo :
        /\ pc[s] = "query" /\ trigger[s] = "chat"
        /\ uploaded_file[s] # NoFile
        /\ stored[s][uploaded_file[s].name] = 1
        /\ query_engine[s] = {Cache(s)[Key(s)]}

\* step part of C2: the step taken by the Clear button
C2_ClearStep ==
    \A s \in Sessions :
        (pc[s] = "idle" /\ pc'[s] = "start" /\ trigger'[s] = "clear")
            => /\ session_state'[s]["messages"] = <<>>
               /\ session_state'[s]["id"] = session_state[s]["id"]
               /\ session_state'[s]["file_cache"] = session_state[s]["file_cache"]

\* state part of C2: the run the Clear button starts
C2_AfterClear ==
    \A s \in Sessions :
        (trigger[s] = "clear" /\ CacheHit(snap[s], uploaded_file[s]))
            => /\ pc[s] \notin BuildPcs
               /\ Cache(s) = GetCache(snap[s])
               /\ status[s] = "ready" => query_engine[s] = {GetCache(snap[s])[Key(s)]}

\* C2: the Clear button empties the message history and changes neither the
\* session id nor any file-cache entry; the run it starts, with a file whose
\* engine is cached, never enters the build path and holds the cached engine.
C2_ResetKeepsCache == [](C2_AfterClear) /\ [][C2_ClearStep]_vars

\* C2 witness: the run started by Clear has ended with an empty history and the
\* engine of the uploaded file taken from the cache
C2_Witness ==
    \E s \in Solo :
        /\ trigger[s] = "clear" /\ pc[s] = "idle" /\ status[s] = "ready"
        /\ session_state[s]["messages"] = <<>>
        /\ stored[s][uploaded_file[s].name] = 1
        /\ query_engine[s] = {Cache(s)[Key(s)]}

\* C3: after the k-th fragment full_response is the concatenation of the first k
\* fragments and the display shows it followed by the marker; when the generator
\* is exhausted the display and the one assistant message appended to the history
\* are the concatenation of all fragments, without the marker.
C3_StreamInOrder ==
    \A s \in Sessions :
        /\ pc[s] = "stream"
            => /\ full_response[s] = Concat(Prefix(stream[s], pos[s]))
               /\ pos[s] > 0 => placeholder[s] = Concat(Prefix(stream[s], pos[s])) \o Marker
        /\ (pc[s] = "idle" /\ trigger[s] = "chat" /\ outcome[s] = "done")
            => /\ placeholder[s] = Concat(stream[s])
               /\ session_state[s]["messages"] =
                     snap[s]["messages"] \o
                        << [role |-> "user", content |-> prompt[s]],
                           [role |-> "assistant", content |-> Concat(stream[s])] >>

\* C3 witness: a stream of two different fragments was consumed to its end
C3_Witness ==
    \E s \in Solo :
        /\ pc[s] = "idle" /\ trigger[s] = "chat" /\ outcome[s] = "done"
        /\ Len(stream[s]) = 2 /\ stream[s][1] # stream[s][2]

\* C4 as stated: after a failed upload block no cache entry exists for the key of
\* the uploaded file, and cache and history are as the run found them.
C4_NoEntryAfterFailure ==
    \A s \in Sessions :
        status[s] = "error"
            => /\ ~CacheHit(session_state[s], uploaded_file[s])
               /\ session_state[s] = snap[s]

\* C4 amended: after a failed upload block the run has ended by st.stop() with the
\* error shown, the session state (file cache, history) is what it was when the run
\* started, so no entry was created, and a pending chat input was neither appended
\* nor queried.
C4_FailureChangesNothing ==
    \A s \in Sessions :
        status[s] = "error"
            => /\ pc[s] = "idle" /\ outcome[s] = "stopped"
               /\ session_state[s] = snap[s]
               /\ lastQuery[s] = {}

\* C4 witness: with an engine of another file cached and a history that is not
\* empty, building the index failed after the documents were loaded and the
\* embedding model was set (Settings holds this attempt's embed_model, not its llm)
C4_Witness ==
    \E s \in Solo :
        /\ status[s] = "error" /\ pc[s] = "idle"
        /\ attempts[s] > 0
        /\ Settings.embed_model = Obj(s, attempts[s])
        /\ Settings.llm # Obj(s, attempts[s])
        /\ ~CacheHit(session_state[s], uploaded_file[s])
        /\ DOMAIN Cache(s) # {}
        /\ Messages(session_state[s]) # <<>>

\* state part of C5
C5_OnlyXml ==
    \A s \in Sessions :
        /\ uploaded_file[s] # NoFile => uploaded_file[s].ext = "xml"
        /\ (tempExists[s] \/ pc[s] \in BlockPcs) => uploaded_file[s].ext = "xml"

\* step part of C5: the uploader refuses a file
C5_RefusalStep ==
    \A s \in Sessions :
        (rejected'[s] # rejected[s] /\ rejected'[s] # NoFile)
            => /\ rejected'[s].ext # "xml"
               /\ UNCHANGED <<session_state, tempExists, pc, attempts, stored,
                              uploaded_file>>

\* C5: a file whose extension is not xml never becomes the uploaded file, so the
\* upload block never runs on it, and the step refusing it leaves the session
\* state, the temporary directory and the run position unchanged.
C5_RejectedBeforeIngestion == [](C5_OnlyXml) /\ [][C5_RefusalStep]_vars

\* C5 witness: a txt file was refused while an engine is cached
C5_Witness ==
    \E s \in Solo :
        /\ rejected[s] = File("c", "txt") /\ pc[s] = "idle"
        /\ DOMAIN Cache(s) # {}

\* C6: the temporary directory exists only while the upload block of a run is
\* executing: never in the main column, never after the run ended or halted.
C6_TempDirScoped ==
    \A s \in Sessions : tempExists[s] => pc[s] \in BlockPcs

\* C6 witness: the block was left by an exception raised after the index was built
C6_Witness ==
    \E s \in Solo :
        /\ pc[s] = "idle" /\ status[s] = "error" /\ index[s] # DefaultObj
        /\ ~tempExists[s]

\* state part of C7
C7_Counts ==
    \A s \in Sessions :
        /\ inits[s].session <= 1 /\ inits[s].history <= 1
        /\ Has(session_state[s], "id") <=> inits[s].session = 1
        /\ pc[s] # "start" => inits[s].session = 1
        /\ pc[s] = "idle" /\ outcome[s] # "stopped" => inits[s].history = 1

\* step part of C7
C7_IdKept ==
    \A s \in Sessions :
        Has(session_state[s], "id")
            => /\ Has(session_state'[s], "id")
               /\ session_state'[s]["id"] = session_state[s]["id"]
               /\ Has(session_state'[s], "file_cache")

\* C7: lines 21-22 run once per session and line 124 once; once set, the id never
\* changes and the file cache stays in the session state.
C7_InitOnce == [](C7_Counts) /\ [][C7_IdKept]_vars

\* C7 witness: a later run (started by Clear) has ended, with a file cached
C7_Witness ==
    \E s \in Solo :
        /\ pc[s] = "idle" /\ trigger[s] = "clear"
        /\ inits[s] = [session |-> 1, history |-> 1]
        /\ DOMAIN Cache(s) # {}

\* C8 as stated: every run that appended a chat input as a user message has
\* called query on the engine cached for the uploaded file with that raw text.
C8_EveryInputQueried ==
    \A s \in Sessions :
        (pc[s] = "idle" /\ trigger[s] = "chat"
            /\ Len(Messages(session_state[s])) > Len(Messages(snap[s])))
            => /\ session_state[s]["messages"][Len(snap[s]["messages"]) + 1] =
                      [role |-> "user", content |-> prompt[s]]
               /\ CacheHit(session_state[s], uploaded_file[s])
               /\ lastQuery[s] = {[engine |-> Cache(s)[Key(s)], text |-> prompt[s]]}

Alternating(m) ==
    /\ Len(m) % 2 = 0
    /\ \A i \in 1..Len(m) : m[i].role = IF i % 2 = 1 THEN "user" ELSE "assistant"

\* C10 as stated: when no run is in progress the history alternates user,
\* assistant, ... and has even length.
C10_HistoryAlternates ==
    \A s \in Sessions : pc[s] = "idle" => Alternating(Messages(session_state[s]))

\* step part of C9
C9_WriteStep ==
    /\ Settings' # Settings
         => \E s \in Sessions :
               /\ pc[s] \in {"setup", "setllm"} /\ pc'[s] # pc[s]
               /\ ~CacheHit(session_state[s], uploaded_file[s])
    /\ \A s \in Sessions :
         /\ (pc[s] = "setup" /\ pc'[s] = "index")
               => Settings'.embed_model = Obj(s, attempts'[s])
         /\ (pc[s] = "setllm" /\ pc'[s] = "engine")
               => Settings'.llm = Obj(s, attempts[s])
         /\ (pc[s] = "cache" /\ pc'[s] = "main") => Settings' = Settings

\* C9: Settings is changed only by a build step (cache miss) of some session, which
\* leaves its own object there (the later write wins); every build writes both
\* fields; a cache hit writes nothing.
C9_SettingsLastWriteWins == [][C9_WriteStep]_vars

\* C9 witness: a session has stored an engine made from another session's object
C9_Witness ==
    \E s \in Sessions : \E k \in DOMAIN Cache(s) :
        Cache(s)[k].embed.owner # s \/ Cache(s)[k].llm.owner # s

====
